---- MODULE Spec2Model ----
(***************************************************************************)
(* mern-cmd: a command dispatcher and seven template-emission actions      *)
(* (src/index.js), modelled over an explicit filesystem.                   *)
(*                                                                         *)
(* A path is the sequence of its segments from the filesystem root; the    *)
(* working directory is Cwd.  A command-line name is the sequence of the   *)
(* segments between its "/" separators (<<"..", "Item">> is "../Item").    *)
(* Text (file contents, console messages) is a sequence of pieces: the     *)
(* literal parts of a template string and the interpolated values.         *)
(***************************************************************************)
EXTENDS Naturals, Sequences, FiniteSets, TLC

VARIABLES dirs, files, templates, prev, last

vars == <<dirs, files, templates, prev, last>>

(***************************************************************************)
(* Bounds and input sets                                                   *)
(***************************************************************************)
MaxRuns == 2

NoErr == ""

Root == << >>

Cwd == <<"cwd">>

EntityNames ==
  { <<"Item">>, <<"..", "Item">>, <<"sub", "Item">>, <<"..", "routes", "Item">> }

ProjectNames == { <<"app">>, <<"models", "sub">> }

UnknownKeywords == { "vue", "express-models" }

\* An I/O failure the environment raises (permissions, disk full): the named
\* call throws EACCES; for a tree copy, the copy of the at-th file does.
NoFault == [fn |-> "none", at |-> 0]

FileFaults ==
  { NoFault, [fn |-> "mkdirSync", at |-> 0], [fn |-> "writeFileSync", at |-> 0] }

CopyFaults ==
  { NoFault, [fn |-> "copyFile", at |-> 1], [fn |-> "copyFile", at |-> 2] }

(***************************************************************************)
(* Paths (path.join) and template-literal interpolation                    *)
(***************************************************************************)
RECURSIVE NormalizeFrom(_, _)
NormalizeFrom(acc, rest) ==
  IF rest = << >> THEN acc
  ELSE LET s == Head(rest)
           acc2 == IF s \in {"", "."} THEN acc
                   ELSE IF s = ".."
                        THEN IF acc = << >> THEN acc
                             ELSE SubSeq(acc, 1, Len(acc) - 1)
                        ELSE Append(acc, s)
       IN NormalizeFrom(acc2, Tail(rest))

\* path.join(base, rel): concatenates and normalises lexically.
pathJoin(base, rel) == NormalizeFrom(<< >>, base \o rel)

\* The name as the string the user typed: its segments joined by "/".
RECURSIVE Raw(_)
Raw(name) ==
  IF Len(name) = 1 THEN name[1]
  ELSE name[1] \o "/" \o Raw(Tail(name))

\* `${name}.ext` as path segments: the extension lands on the last segment.
FileName(name, ext) == [name EXCEPT ![Len(name)] = @ \o ext]

Parent(p) == SubSeq(p, 1, Len(p) - 1)

Ancestors(p) == { SubSeq(p, 1, k) : k \in 0..(Len(p) - 1) }

IsPrefix(d, p) == Len(d) <= Len(p) /\ SubSeq(p, 1, Len(d)) = d

(***************************************************************************)
(* Filesystem calls.  fs is [dirs |-> set of paths, files |-> path -> text]*)
(* and each mutating call returns [fs |-> ..., err |-> code].              *)
(***************************************************************************)
existsSync(fs, p) == p \in fs.dirs \/ p \in DOMAIN fs.files

PutFile(fs, p, data) ==
  [fs EXCEPT !.files = [q \in (DOMAIN fs.files) \cup {p} |->
                          IF q = p THEN data ELSE fs.files[q]]]

\* Variant: mkdirSync without { recursive: true } makes one directory only.
mkdirSyncNotRecursive(fs, p, io) ==
  IF io.fn = "mkdirSync" THEN [fs |-> fs, err |-> "EACCES"]
  ELSE IF p \in DOMAIN fs.files THEN [fs |-> fs, err |-> "EEXIST"]
  ELSE IF \E a \in Ancestors(p) : a \in DOMAIN fs.files
       THEN [fs |-> fs, err |-> "ENOTDIR"]
  ELSE IF Parent(p) \notin fs.dirs THEN [fs |-> fs, err |-> "ENOENT"]
  ELSE [fs |-> [fs EXCEPT !.dirs = @ \cup {p}], err |-> NoErr]

\* fs.mkdirSync(p, { recursive: true })
mkdirSync(fs, p, io) ==
  IF io.fn = "mkdirSync" THEN [fs |-> fs, err |-> "EACCES"]
  ELSE IF p \in DOMAIN fs.files THEN [fs |-> fs, err |-> "EEXIST"]
  ELSE IF \E a \in Ancestors(p) : a \in DOMAIN fs.files
       THEN [fs |-> fs, err |-> "ENOTDIR"]
  ELSE [fs |-> [fs EXCEPT !.dirs = @ \cup Ancestors(p) \cup {p}], err |-> NoErr]

\* fs.writeFileSync(p, data)
writeFileSync(fs, p, data, io) ==
  IF io.fn = "writeFileSync" THEN [fs |-> fs, err |-> "EACCES"]
  ELSE IF \E a \in Ancestors(p) : a \in DOMAIN fs.files
       THEN [fs |-> fs, err |-> "ENOTDIR"]
  ELSE IF Parent(p) \notin fs.dirs THEN [fs |-> fs, err |-> "ENOENT"]
  ELSE IF p \in fs.dirs THEN [fs |-> fs, err |-> "EISDIR"]
  ELSE [fs |-> PutFile(fs, p, data), err |-> NoErr]

(***************************************************************************)
(* fs.copySync(src, dest) of fs-extra, with its defaults (overwrite).  A   *)
(* bundled template is [present |-> BOOLEAN, tree |-> its files in the     *)
(* order the copy visits them, each [path |-> relative path, data |-> text]*)
(***************************************************************************)
\* Variant: copySync with { overwrite: false } keeps a file that is there.
CopyEntryKeepExisting(r, dest, e, k, io) ==
  IF r.err /= NoErr THEN r
  ELSE IF dest \o e.path \in DOMAIN r.fs.files THEN r
  ELSE IF io.fn = "copyFile" /\ io.at = k THEN [fs |-> r.fs, err |-> "EACCES"]
  ELSE [fs |-> PutFile([r.fs EXCEPT !.dirs = @ \cup Ancestors(dest \o e.path)],
                       dest \o e.path, e.data),
        err |-> NoErr]

\* One file of the tree: its directories below dest are made on the way down,
\* then the file is copied over whatever file is there.
CopyEntry(r, dest, e, k, io) ==
  IF r.err /= NoErr THEN r
  ELSE LET fs == r.fs
           target == dest \o e.path
           chain == { a \in Ancestors(target) : IsPrefix(dest, a) /\ a /= dest }
           blocked == { a \in chain : a \in DOMAIN fs.files }
           made == { a \in chain : \A b \in blocked : Len(a) < Len(b) }
           fs1 == [fs EXCEPT !.dirs = @ \cup made]
       IN IF blocked /= {} THEN [fs |-> fs1, err |-> "ERR_FS_COPY_DIR_TO_NON_DIR"]
          ELSE IF target \in fs1.dirs
               THEN [fs |-> fs1, err |-> "ERR_FS_COPY_NON_DIR_TO_DIR"]
          ELSE IF io.fn = "copyFile" /\ io.at = k
               THEN [fs |-> fs1, err |-> "EACCES"]
          ELSE [fs |-> PutFile(fs1, target, e.data), err |-> NoErr]

RECURSIVE CopyFrom(_, _, _, _, _)
CopyFrom(r, dest, tree, k, io) ==
  IF k > Len(tree) THEN r
  ELSE CopyFrom(CopyEntry(r, dest, tree[k], k, io), dest, tree, k + 1, io)

\* Variant: a copy that makes the destination directory before it looks at
\* the source.
copySyncDestFirst(fs, src, dest, io) ==
  IF \E a \in Ancestors(dest) \cup {dest} : a \in DOMAIN fs.files
  THEN [fs |-> fs, err |-> "ENOTDIR"]
  ELSE IF ~src.present
       THEN [fs |-> [fs EXCEPT !.dirs = @ \cup Ancestors(dest) \cup {dest}],
             err |-> "ENOENT"]
  ELSE CopyFrom([fs |-> [fs EXCEPT !.dirs = @ \cup Ancestors(dest) \cup {dest}],
                 err |-> NoErr], dest, src.tree, 1, io)

copySync(fs, src, dest, io) ==
  IF ~src.present THEN [fs |-> fs, err |-> "ENOENT"]
  ELSE IF \E a \in Ancestors(dest) : a \in DOMAIN fs.files
       THEN [fs |-> fs, err |-> "ENOTDIR"]
  ELSE IF dest \in DOMAIN fs.files
       THEN [fs |-> fs, err |-> "ERR_FS_COPY_DIR_TO_NON_DIR"]
  ELSE LET fs1 == [fs EXCEPT !.dirs = @ \cup Ancestors(dest) \cup {dest}]
       IN CopyFrom([fs |-> fs1, err |-> NoErr], dest, src.tree, 1, io)

(***************************************************************************)
(* The run of one action: the filesystem, what was printed, the calls made,*)
(* the exception in flight and whether the action has returned.            *)
(***************************************************************************)
Enter(fs) ==
  [fs |-> fs, log |-> << >>, calls |-> << >>, exc |-> NoErr, returned |-> FALSE]

Live(m) == m.exc = NoErr /\ ~m.returned

Call(m, fn, err) ==
  [m EXCEPT !.calls = Append(@, [fn |-> fn, threw |-> err]), !.exc = err]

Called(m, fn, r) == [Call(m, fn, r.err) EXCEPT !.fs = r.fs]

Printed(m, stream, color, msg) ==
  [m EXCEPT !.log = Append(@, [stream |-> stream, color |-> color, msg |-> msg])]

(***************************************************************************)
(* The statements the actions are written in, and what executing one does. *)
(***************************************************************************)
\* console.log(chalk.<color>(msg));
ConsoleLog(color, msg) == [op |-> "console.log", color |-> color, msg |-> msg]

\* if (!fs.existsSync(dir)) { fs.mkdirSync(dir, { recursive: true }); }
EnsureDir(dir) == [op |-> "ensureDir", dir |-> dir]

\* if (fs.existsSync(file)) { console.log(chalk.red(msg)); return; }
IfExistsReturn(file, msg) == [op |-> "ifExistsReturn", file |-> file, msg |-> msg]

\* fs.writeFileSync(file, data);
WriteFileSync(file, data) == [op |-> "writeFileSync", file |-> file, data |-> data]

\* fs.copySync(src, dest);
CopySync(src, dest) == [op |-> "copySync", src |-> src, dest |-> dest]

\* await askUserConfirmation(question): readline is never imported, so the
\* helper's first statement throws a ReferenceError.
AskUserConfirmation(question) == [op |-> "askUserConfirmation", question |-> question]

Exec(m, s, io) ==
  CASE s.op = "console.log" -> Printed(m, "log", s.color, s.msg)
    [] s.op = "ensureDir" ->
         LET m1 == Call(m, "existsSync", NoErr)
         IN IF existsSync(m.fs, s.dir) THEN m1
            ELSE Called(m1, "mkdirSync", mkdirSync(m.fs, s.dir, io))
    [] s.op = "ifExistsReturn" ->
         LET m1 == Call(m, "existsSync", NoErr)
         IN IF existsSync(m.fs, s.file)
            THEN [Printed(m1, "log", "red", s.msg) EXCEPT !.returned = TRUE]
            ELSE m1
    [] s.op = "writeFileSync" ->
         Called(m, "writeFileSync", writeFileSync(m.fs, s.file, s.data, io))
    [] s.op = "copySync" ->
         Called(m, "copySync", copySync(m.fs, s.src, s.dest, io))
    [] s.op = "askUserConfirmation" ->
         Call(m, "askUserConfirmation", "ReferenceError")

\* The statements of a block in order, until one throws or returns.
RECURSIVE Block(_, _, _)
Block(m, stmts, io) ==
  IF stmts = << >> \/ ~Live(m) THEN m
  ELSE Block(Exec(m, Head(stmts), io), Tail(stmts), io)

\* Variant: a catch block that prints the error and throws it again.
CatchAndRethrow(m, msg) ==
  IF m.exc = NoErr THEN m ELSE Printed(m, "error", "red", <<msg, m.exc>>)

\* catch (err) { console.error(chalk.red(msg), err); }
Catch(m, msg) ==
  IF m.exc = NoErr THEN m
  ELSE [Printed(m, "error", "red", <<msg, m.exc>>) EXCEPT !.exc = NoErr]

\* An action: statements, then try { ... } catch (err) { console.error(...) }.
TryCatch(fs, io, before, try, msg) ==
  Catch(Block(Block(Enter(fs), before, io), try, io), msg)

(***************************************************************************)
(* String.prototype.trim on a text: the whitespace at both ends goes.      *)
(***************************************************************************)
IsSpace(s) == s \in {"\n", " ", ""}

RECURSIVE TrimStart(_)
TrimStart(t) ==
  IF t /= << >> /\ IsSpace(Head(t)) THEN TrimStart(Tail(t)) ELSE t

RECURSIVE TrimEnd(_)
TrimEnd(t) ==
  IF t /= << >> /\ IsSpace(t[Len(t)]) THEN TrimEnd(SubSeq(t, 1, Len(t) - 1)) ELSE t

trim(t) == TrimEnd(TrimStart(t))

(***************************************************************************)
(* express <projectName> and react <projectName>                           *)
(***************************************************************************)
Express(fs, tpl, name, io) ==
  LET projectName == Raw(name)
      templateDir == tpl.express
      destinationDir == pathJoin(Cwd, name)
  IN TryCatch(fs, io,
       << ConsoleLog("blue", <<"Creating Express project: ", projectName>>) >>,
       << CopySync(templateDir, destinationDir),
          ConsoleLog("green", <<"Express project created successfully!">>) >>,
       "Error copying template files:")

React(fs, tpl, name, io) ==
  LET projectName == Raw(name)
      templateDir == tpl.react
      destinationDir == pathJoin(Cwd, name)
  IN TryCatch(fs, io,
       << ConsoleLog("blue", <<"Creating React project: ", projectName>>) >>,
       << CopySync(templateDir, destinationDir),
          ConsoleLog("green", <<"React project created successfully!">>) >>,
       "Error copying template files:")

(***************************************************************************)
(* react-component <componentName>                                         *)
(***************************************************************************)
componentTemplate(componentName) ==
  << "\n",
     "import React from 'react';\n\nconst ", componentName,
     " = () => {\n  return (\n    <div>\n      <h1>", componentName,
     "</h1>\n    </div>\n  );\n};\n", "export default ", componentName, ";",
     "\n" >>

\* Variant: the component action asks before it writes.
ReactComponentAsking(fs, name, io) ==
  TryCatch(fs, io,
    << ConsoleLog("blue", <<"Creating React component: ", Raw(name)>>) >>,
    << EnsureDir(pathJoin(Cwd, <<"src", "components">>)),
       AskUserConfirmation(<<"Overwrite ", Raw(name), "? (y/n) ">>),
       WriteFileSync(pathJoin(pathJoin(Cwd, <<"src", "components">>), FileName(name, ".jsx")),
                     trim(componentTemplate(Raw(name)))),
       ConsoleLog("green", <<"Component ", Raw(name), " created successfully!">>) >>,
    "Error creating component:")

ReactComponent(fs, name, io) ==
  LET componentName == Raw(name)
      componentDir == pathJoin(Cwd, <<"src", "components">>)
      componentFile == pathJoin(componentDir, FileName(name, ".jsx"))
  IN TryCatch(fs, io,
       << ConsoleLog("blue", <<"Creating React component: ", componentName>>) >>,
       << EnsureDir(componentDir),
          WriteFileSync(componentFile, trim(componentTemplate(componentName))),
          ConsoleLog("green", <<"Component ", componentName, " created successfully!">>) >>,
       "Error creating component:")

(***************************************************************************)
(* express-model <modelName>                                               *)
(***************************************************************************)
\* Variant: the schema variable is not named after the model.
modelTemplateUnnamedSchema(modelName) ==
  << "import mongoose from 'mongoose';\n\nconst ", "Schema",
     " = new mongoose.Schema({});\n\nconst ",
     modelName, " = mongoose.model('", modelName, "', ", "Schema",
     ");\n\n", "export default ", modelName, ";" >>

modelTemplate(modelName) ==
  << "\n",
     "import mongoose from 'mongoose';\n\nconst ", modelName, "Schema",
     " = new mongoose.Schema({\n  // Define your schema here\n  name: { type: String, required: true },\n  createdAt: { type: Date, default: Date.now },\n});\n\nconst ",
     modelName, " = mongoose.model('", modelName, "', ", modelName, "Schema",
     ");\n\n", "export default ", modelName, ";",
     "\n" >>

ExpressModel(fs, name, io) ==
  LET modelName == Raw(name)
      modelDir == pathJoin(Cwd, <<"models">>)
      modelFile == pathJoin(modelDir, FileName(name, ".js"))
  IN TryCatch(fs, io,
       << ConsoleLog("blue", <<"Creating MongoDB model: ", modelName>>) >>,
       << EnsureDir(modelDir),
          IfExistsReturn(modelFile, <<"Model ", modelName, " already exists.">>),
          WriteFileSync(modelFile, trim(modelTemplate(modelName))),
          ConsoleLog("green", <<"Model ", modelName, " created successfully!">>) >>,
       "Error creating model:")

(***************************************************************************)
(* express-controller <controllerName>                                     *)
(***************************************************************************)
controllerTemplate(controllerName) == << "//Your Code here" >>

ExpressController(fs, name, io) ==
  LET controllerName == Raw(name)
      controllerDir == pathJoin(Cwd, <<"controllers">>)
      controllerFile == pathJoin(controllerDir, FileName(name, ".js"))
  IN TryCatch(fs, io,
       << ConsoleLog("blue", <<"Creating MongoDB controller: ", controllerName>>) >>,
       << EnsureDir(controllerDir),
          IfExistsReturn(controllerFile,
                         <<"Controller ", controllerName, " already exists.">>),
          WriteFileSync(controllerFile, trim(controllerTemplate(controllerName))),
          ConsoleLog("green", <<"Controller ", controllerName, " created successfully!">>) >>,
       "Error creating controller:")

(***************************************************************************)
(* express-route <routeName>                                               *)
(***************************************************************************)
routeTemplate(routeName) ==
  << "\n",
     "import express from 'express';\nimport { getAll", routeName, "s, create",
     routeName, " } from '../controllers/", routeName,
     ".js';\n\nconst router = express.Router();\n\nrouter.get('/', getAll",
     routeName, "s);\nrouter.post('/', create", routeName,
     ");\n\nexport default router;",
     "\n" >>

\* Variant: the route action writes into the controllers directory.
ExpressRouteInControllers(fs, name, io) ==
  TryCatch(fs, io,
    << ConsoleLog("blue", <<"Creating route for: ", Raw(name)>>) >>,
    << EnsureDir(pathJoin(Cwd, <<"controllers">>)),
       IfExistsReturn(pathJoin(pathJoin(Cwd, <<"controllers">>), FileName(name, ".js")),
                      <<"Route ", Raw(name), " already exists.">>),
       WriteFileSync(pathJoin(pathJoin(Cwd, <<"controllers">>), FileName(name, ".js")),
                     trim(routeTemplate(Raw(name)))),
       ConsoleLog("green", <<"Route ", Raw(name), " created successfully!">>) >>,
    "Error creating route:")

ExpressRoute(fs, name, io) ==
  LET routeName == Raw(name)
      routeDir == pathJoin(Cwd, <<"routes">>)
      routeFile == pathJoin(routeDir, FileName(name, ".js"))
  IN TryCatch(fs, io,
       << ConsoleLog("blue", <<"Creating route for: ", routeName>>) >>,
       << EnsureDir(routeDir),
          IfExistsReturn(routeFile, <<"Route ", routeName, " already exists.">>),
          WriteFileSync(routeFile, trim(routeTemplate(routeName))),
          ConsoleLog("green", <<"Route ", routeName, " created successfully!">>) >>,
       "Error creating route:")

(***************************************************************************)
(* express-middleware <fileName>                                           *)
(***************************************************************************)
middlewareTemplate(fileName) ==
  << "\n",
     "// Middleware boilerplate for ", fileName, "\n\nconst ", fileName,
     " = (req, res, next) => {\n  // Your middleware logic here\n  console.log('",
     fileName, " middleware triggered');\n  next();\n};\n\n", "export default ",
     fileName, ";",
     "\n" >>

ExpressMiddleware(fs, name, io) ==
  LET fileName == Raw(name)
      middlewareDir == pathJoin(Cwd, <<"middlewares">>)
      middlewareFile == pathJoin(middlewareDir, FileName(name, ".js"))
  IN TryCatch(fs, io,
       << ConsoleLog("blue", <<"Creating middleware file: ", fileName>>) >>,
       << EnsureDir(middlewareDir),
          IfExistsReturn(middlewareFile, <<"Middleware ", fileName, " already exists.">>),
          WriteFileSync(middlewareFile, trim(middlewareTemplate(fileName))),
          ConsoleLog("green", <<"Middleware ", fileName, " created successfully!">>) >>,
       "Error creating middleware file:")

(***************************************************************************)
(* The dispatcher: program.command(...) registrations and program.parse    *)
(***************************************************************************)
Registered ==
  << "express", "react", "react-component", "express-model",
     "express-controller", "express-route", "express-middleware" >>

\* The index of the command registered under the keyword, 0 when none is.
FindCommand(cmd) ==
  IF \E i \in 1..Len(Registered) : Registered[i] = cmd
  THEN CHOOSE i \in 1..Len(Registered) :
         /\ Registered[i] = cmd
         /\ \A j \in 1..(i - 1) : Registered[j] /= cmd
  ELSE 0

\* Variant: the route and middleware actions are chained to each other's command.
ActionMisrouted(i, fs, tpl, name, io) ==
  CASE i = 1 -> Express(fs, tpl, name, io)
    [] i = 2 -> React(fs, tpl, name, io)
    [] i = 3 -> ReactComponent(fs, name, io)
    [] i = 4 -> ExpressModel(fs, name, io)
    [] i = 5 -> ExpressController(fs, name, io)
    [] i = 6 -> ExpressMiddleware(fs, name, io)
    [] i = 7 -> ExpressRoute(fs, name, io)

\* The .action callback chained to the i-th .command.
Action(i, fs, tpl, name, io) ==
  CASE i = 1 -> Express(fs, tpl, name, io)
    [] i = 2 -> React(fs, tpl, name, io)
    [] i = 3 -> ReactComponent(fs, name, io)
    [] i = 4 -> ExpressModel(fs, name, io)
    [] i = 5 -> ExpressController(fs, name, io)
    [] i = 6 -> ExpressRoute(fs, name, io)
    [] i = 7 -> ExpressMiddleware(fs, name, io)

\* How the process ends once the action has run: an exception the action let
\* through ends the process with status 1.
Ran(m, i, arg) ==
  [fs |-> m.fs, invoked |-> <<[action |-> i, arg |-> arg]>>, calls |-> m.calls,
   uncaught |-> m.exc, exit |-> IF m.exc = NoErr THEN 0 ELSE 1, log |-> m.log]

\* commander's own errors: a message on stderr, exit status 1, no action.
Refused(fs, msg, cmd) ==
  [fs |-> fs, invoked |-> << >>, calls |-> << >>, uncaught |-> NoErr, exit |-> 1,
   log |-> <<[stream |-> "error", color |-> "none", msg |-> <<msg, cmd>>]>>]

\* program.parse(process.argv) with argv = node, script, cmd, args...
ProgramParse(fs, tpl, cmd, args, io) ==
  IF FindCommand(cmd) = 0 THEN Refused(fs, "error: unknown command ", cmd)
  ELSE IF args = << >> THEN Refused(fs, "error: missing required argument for ", cmd)
  ELSE Ran(Action(FindCommand(cmd), fs, tpl, args[1], io), FindCommand(cmd), args[1])

(***************************************************************************)
(* Initial states: what the working directory holds before the first run,  *)
(* and which templates the installation bundles.                           *)
(***************************************************************************)
Foreign == << "(written by someone else)" >>

\* src/templates/express: one file.
ExpressTree ==
  << [path |-> <<"index.js">>, data |-> <<"const express = require('express');">>] >>

\* templates/react: a tree with a file at its top and one in a subdirectory.
ReactTree ==
  << [path |-> <<"index.js">>, data |-> <<"import React from 'react';">>],
     [path |-> <<"src", "App.jsx">>, data |-> <<"export default App;">>] >>

Missing == [present |-> FALSE, tree |-> << >>]

Bundled(tree) == [present |-> TRUE, tree |-> tree]

TemplateStores ==
  { [express |-> Bundled(ExpressTree), react |-> Bundled(ReactTree)],
    [express |-> Missing, react |-> Missing] }

In(rel) == Cwd \o rel

EmptyFS == [dirs |-> {Root, Cwd}, files |-> [p \in {} |-> Foreign]]

PopulatedFS ==
  [dirs |-> {Root, Cwd, In(<<"models">>), In(<<"src">>), In(<<"src", "components">>),
             In(<<"app">>)},
   files |-> [p \in {In(<<"models", "Item.js">>), In(<<"src", "components", "Item.jsx">>),
                     In(<<"app", "index.js">>), In(<<"app", "notes.txt">>)} |-> Foreign]]

\* src, controllers and app are regular files.
BlockedFS ==
  [dirs |-> {Root, Cwd},
   files |-> [p \in {In(<<"src">>), In(<<"controllers">>), In(<<"app">>)} |-> Foreign]]

InitialFS == { EmptyFS, PopulatedFS, BlockedFS }

NoRun(fs) ==
  [n |-> 0, cmd |-> "", args |-> << >>, before |-> fs, log |-> << >>,
   calls |-> << >>, invoked |-> << >>, uncaught |-> NoErr, exit |-> 0]

Init ==
  \E fs \in InitialFS, tpl \in TemplateStores :
    /\ dirs = fs.dirs
    /\ files = fs.files
    /\ templates = tpl
    /\ prev = NoRun(fs)
    /\ last = NoRun(fs)

(***************************************************************************)
(* The state machine: one run of the tool per step                         *)
(***************************************************************************)
\* last records a run: the filesystem it started from, what it printed, the
\* filesystem calls its action made, the action the dispatcher invoked, and
\* how the process ended.
Exit(r, fs, cmd, args) ==
  /\ dirs' = r.fs.dirs
  /\ files' = r.fs.files
  /\ last' = [n |-> last.n + 1, cmd |-> cmd, args |-> args, before |-> fs,
              log |-> r.log, calls |-> r.calls, invoked |-> r.invoked,
              uncaught |-> r.uncaught, exit |-> r.exit]
  /\ UNCHANGED templates

\* One process: `mern-cmd <cmd> <args>` run to its exit.
Process(cmd, args, io) ==
  /\ last.n < MaxRuns
  /\ Exit(ProgramParse([dirs |-> dirs, files |-> files], templates, cmd, args, io),
          [dirs |-> dirs, files |-> files], cmd, args)

RunExpress ==
  \E name \in ProjectNames, io \in CopyFaults :
    /\ Process("express", <<name>>, io)
    /\ UNCHANGED prev

RunReact ==
  \E name \in ProjectNames, io \in CopyFaults :
    /\ Process("react", <<name>>, io)
    /\ UNCHANGED prev

RunReactComponent ==
  \E name \in EntityNames, io \in FileFaults :
    /\ Process("react-component", <<name>>, io)
    /\ UNCHANGED prev

RunExpressModel ==
  \E name \in EntityNames, io \in FileFaults :
    /\ Process("express-model", <<name>>, io)
    /\ UNCHANGED prev

RunExpressController ==
  \E name \in EntityNames, io \in FileFaults :
    /\ Process("express-controller", <<name>>, io)
    /\ UNCHANGED prev

RunExpressRoute ==
  \E name \in EntityNames, io \in FileFaults :
    /\ Process("express-route", <<name>>, io)
    /\ UNCHANGED prev

RunExpressMiddleware ==
  \E name \in EntityNames, io \in FileFaults :
    /\ Process("express-middleware", <<name>>, io)
    /\ UNCHANGED prev

RunUnknown ==
  \E cmd \in UnknownKeywords, name \in EntityNames :
    /\ Process(cmd, <<name>>, NoFault)
    /\ UNCHANGED prev

RunMissingArgument ==
  \E i \in 1..Len(Registered) :
    /\ Process(Registered[i], << >>, NoFault)
    /\ UNCHANGED prev

Next ==
  \/ RunExpress
  \/ RunReact
  \/ RunReactComponent
  \/ RunExpressModel
  \/ RunExpressController
  \/ RunExpressRoute
  \/ RunExpressMiddleware
  \/ RunUnknown
  \/ RunMissingArgument

Spec == Init /\ [][Next]_vars

(***************************************************************************)
(* The same command line given twice in a row: a file-generation command   *)
(* is run, then run again with the same name; prev keeps the earlier run.  *)
(***************************************************************************)
FileCommands ==
  { Registered[i] : i \in 3..7 }

FirstRun ==
  \E cmd \in FileCommands, name \in EntityNames, io \in FileFaults :
    /\ last.n = 0
    /\ Process(cmd, <<name>>, io)
    /\ prev' = last

Rerun ==
  \E cmd \in {last.cmd}, args \in {last.args}, io \in FileFaults :
    /\ last.n > 0
    /\ Process(cmd, args, io)
    /\ prev' = last

NextRepeat == FirstRun \/ Rerun

SpecRepeat == Init /\ [][NextRepeat]_vars

(***************************************************************************)
(* Vocabulary of the properties: the command table of the tool's interface *)
(* and what a recorded run shows.                                          *)
(***************************************************************************)
Now == [dirs |-> dirs, files |-> files]

Range(t) == { t[i] : i \in 1..Len(t) }

FileGenerationCommands ==
  { "react-component", "express-model", "express-controller", "express-route",
    "express-middleware" }

ProjectGenerationCommands == { "express", "react" }

TargetSubdir(cmd) ==
  CASE cmd = "react-component" -> <<"src", "components">>
    [] cmd = "express-model" -> <<"models">>
    [] cmd = "express-controller" -> <<"controllers">>
    [] cmd = "express-route" -> <<"routes">>
    [] cmd = "express-middleware" -> <<"middlewares">>

Extension(cmd) == IF cmd = "react-component" THEN ".jsx" ELSE ".js"

TargetDir(cmd) == Cwd \o TargetSubdir(cmd)

\* The run is one of a file-generation command whose action was invoked.
GeneratesFile(run) ==
  run.n > 0 /\ run.invoked /= << >> /\ run.cmd \in FileGenerationCommands

\* The run is one of a project-generation command whose action was invoked.
CopiesTemplate(run) ==
  run.n > 0 /\ run.invoked /= << >> /\ run.cmd \in ProjectGenerationCommands

\* <cwd>/<targetSubdir>/<entityName>.<ext>
Destination(run) ==
  pathJoin(TargetDir(run.cmd), FileName(run.args[1], Extension(run.cmd)))

EntityName(run) == Raw(run.args[1])

SaidSuccess(run) ==
  \E i \in 1..Len(run.log) : run.log[i].stream = "log" /\ run.log[i].color = "green"

SaidAlreadyExists(run) ==
  \E i \in 1..Len(run.log) :
    run.log[i].stream = "log" /\ " already exists." \in Range(run.log[i].msg)

SaidError(run) == \E i \in 1..Len(run.log) : run.log[i].stream = "error"

Wrote(run) == \E i \in 1..Len(run.calls) : run.calls[i].fn = "writeFileSync"

Threw(run) == \E i \in 1..Len(run.calls) : run.calls[i].threw /= NoErr

\* The environment failed a call of the run (permissions, disk full).
EnvironmentFailed(run) == \E i \in 1..Len(run.calls) : run.calls[i].threw = "EACCES"

(***************************************************************************)
(* C1                                                                      *)
(***************************************************************************)
\* C1 (as claimed): whenever a file-generation command is invoked while its
\* destination file exists (and the environment fails no call), the run writes
\* nothing (every file is as before), prints an "already exists" message and
\* prints no success message.
C1_ExistingFileIsLeftAlone ==
  ( /\ GeneratesFile(last)
    /\ Destination(last) \in DOMAIN last.before.files
    /\ ~EnvironmentFailed(last) )
    => /\ files = last.before.files
       /\ ~Wrote(last)
       /\ SaidAlreadyExists(last)
       /\ ~SaidSuccess(last)

(***************************************************************************)
(* C2                                                                      *)
(***************************************************************************)
\* C2 (as claimed): a file-generation command run twice in a row with the same
\* name, from a state where the destination does not exist and with no call
\* failing: the first run creates the file, the second leaves every file as
\* it was and prints "already exists", and the two runs together have added
\* exactly the one destination file.
C2_SecondRunLeavesFile ==
  ( /\ last.n >= 2
    /\ GeneratesFile(prev) /\ GeneratesFile(last)
    /\ prev.cmd = last.cmd /\ prev.args = last.args
    /\ ~existsSync(prev.before, Destination(prev))
    /\ ~Threw(prev) /\ ~Threw(last) )
    => /\ Destination(last) \in DOMAIN last.before.files
       /\ files = last.before.files
       /\ SaidAlreadyExists(last)
       /\ (DOMAIN files) \ (DOMAIN prev.before.files) = {Destination(last)}

(***************************************************************************)
(* C3                                                                      *)
(***************************************************************************)
TemplateOf(run) == IF run.cmd = "express" THEN templates.express ELSE templates.react

ProjectDir(run) == pathJoin(Cwd, run.args[1])

FilesUnder(fs, d) == { p \in DOMAIN fs.files : IsPrefix(d, p) }

TemplatePaths(run) ==
  { ProjectDir(run) \o TemplateOf(run).tree[k].path : k \in 1..Len(TemplateOf(run).tree) }

TemplateCopied(run) ==
  \A k \in 1..Len(TemplateOf(run).tree) :
    /\ ProjectDir(run) \o TemplateOf(run).tree[k].path \in DOMAIN files
    /\ files[ProjectDir(run) \o TemplateOf(run).tree[k].path] = TemplateOf(run).tree[k].data

\* C3 (as claimed): after a project-generation command that reports success,
\* the files under <cwd>/<name> are exactly the template's files, with the
\* template's contents, whatever the destination held before.
C3_DestinationEqualsTemplate ==
  (CopiesTemplate(last) /\ SaidSuccess(last))
    => /\ FilesUnder(Now, ProjectDir(last)) = TemplatePaths(last)
       /\ TemplateCopied(last)

\* C3 (amended): after a project-generation command that reports success,
\* every file of the template is under <cwd>/<name> with the template's
\* content, every other file under <cwd>/<name> was there before the run and
\* is unchanged, and so the two file sets are equal when the destination held
\* no file outside the template's paths (absent or empty in particular).
C3_DestinationContainsTemplate ==
  (CopiesTemplate(last) /\ SaidSuccess(last))
    => /\ TemplateCopied(last)
       /\ \A p \in FilesUnder(Now, ProjectDir(last)) \ TemplatePaths(last) :
            p \in DOMAIN last.before.files /\ last.before.files[p] = files[p]
       /\ (FilesUnder(last.before, ProjectDir(last)) \subseteq TemplatePaths(last))
            => FilesUnder(Now, ProjectDir(last)) = TemplatePaths(last)

\* A successful copy into a destination that already held a file of the
\* template's (with other content) and a file of its own.
C3_CopiedOverExistingProject ==
  /\ CopiesTemplate(last) /\ SaidSuccess(last)
  /\ \E p \in FilesUnder(last.before, ProjectDir(last)) : p \notin TemplatePaths(last)
  /\ \E p \in FilesUnder(last.before, ProjectDir(last)) :
       p \in TemplatePaths(last) /\ last.before.files[p] /= files[p]

(***************************************************************************)
(* C4                                                                      *)
(***************************************************************************)
\* The run created its destination file.
CreatedFile(run) ==
  /\ GeneratesFile(run)
  /\ SaidSuccess(run)
  /\ Destination(run) \notin DOMAIN run.before.files
  /\ Destination(run) \in DOMAIN files

Occurrences(t, x) == Cardinality({ i \in 1..Len(t) : t[i] = x })

Follows(t, a, b) == \E i \in 1..(Len(t) - 1) : t[i] = a /\ t[i + 1] = b

\* The ${...} places of each command's template string.
InterpolationPoints(cmd) ==
  CASE cmd = "react-component" -> 3
    [] cmd = "express-model" -> 5
    [] cmd = "express-controller" -> 0
    [] cmd = "express-route" -> 5
    [] cmd = "express-middleware" -> 4

\* C4 (as claimed): the file a file-generation command creates contains the
\* entity name, for all five kinds.
C4_GeneratedFileContainsName ==
  CreatedFile(last) => EntityName(last) \in Range(files[Destination(last)])

NameInterpolated(cmd, text, name) ==
  /\ Occurrences(text, name) = InterpolationPoints(cmd)
  /\ text /= << >> /\ text[1] /= "\n" /\ text[Len(text)] /= "\n"
  /\ cmd = "express-model"
       => Follows(text, name, "Schema") /\ Follows(text, "export default ", name)
  /\ cmd \in {"react-component", "express-middleware"}
       => Follows(text, "export default ", name)
  /\ cmd = "express-route" => Follows(text, " } from '../controllers/", name)
  /\ cmd = "express-controller" => text = << "//Your Code here" >>
  /\ cmd /= "express-controller" => name \in Range(text)

\* C4 (amended): the file a file-generation command creates is the command's
\* template, trimmed, with the entity name at each of its interpolation points
\* (express-model N defines NSchema and exports N); it contains the name for
\* react-component, express-model, express-route and express-middleware, while
\* express-controller's template has no interpolation point and its file is
\* the fixed text "//Your Code here".
C4_GeneratedFileIsTemplate ==
  CreatedFile(last)
    => NameInterpolated(last.cmd, files[Destination(last)], EntityName(last))

\* express-model has created a model file.
C4_ModelCreated == CreatedFile(last) /\ last.cmd = "express-model"

(***************************************************************************)
(* C5                                                                      *)
(***************************************************************************)
PlainName(name) == Len(name) = 1 /\ name[1] \notin {"", ".", ".."}

\* A file-generation command was invoked with a name free of separators while
\* its target directory did not exist, no regular file stood on the path to
\* it, and the environment failed no call.
TargetDirWasMissing(run) ==
  /\ GeneratesFile(run)
  /\ PlainName(run.args[1])
  /\ TargetDir(run.cmd) \notin run.before.dirs
  /\ \A a \in Ancestors(TargetDir(run.cmd)) \cup {TargetDir(run.cmd)} :
       a \notin DOMAIN run.before.files
  /\ ~EnvironmentFailed(run)

DirAndFileExist(run) ==
  /\ Ancestors(TargetDir(run.cmd)) \cup {TargetDir(run.cmd)} \subseteq dirs
  /\ Destination(run) = TargetDir(run.cmd) \o FileName(run.args[1], Extension(run.cmd))
  /\ Destination(run) \in DOMAIN files
  /\ SaidSuccess(run)

C6_MissingTemplateChangesNothing ==
  (CopiesTemplate(last) /\ ~TemplateOf(last).present)
    => /\ SaidError(last)
       /\ ~SaidSuccess(last)
       /\ Now = last.before

\* A project-generation command has run without its template, into a
\* destination that did not exist.
C6_RanWithoutTemplate ==
  /\ CopiesTemplate(last)
  /\ ~TemplateOf(last).present
  /\ ~existsSync(last.before, ProjectDir(last))

(***************************************************************************)
(* C7                                                                      *)
(***************************************************************************)
\* C7: in every run of every command no exception leaves the action; and when
\* a filesystem call of the action threw, the last thing printed is the
\* action's error message with the error that was thrown, no success message
\* was printed, and the process ends with status 0 as a successful run does.
C7_FailuresAreCaught ==
  (last.n > 0 /\ last.invoked /= << >>)
    => /\ last.uncaught = NoErr
       /\ last.exit = 0
       /\ Threw(last)
            => /\ ~SaidSuccess(last)
               /\ last.log[Len(last.log)].stream = "error"
               /\ last.calls[Len(last.calls)].threw /= NoErr
               /\ last.log[Len(last.log)].msg[2] = last.calls[Len(last.calls)].threw

\* A directory creation, a file write or a tree copy has thrown in the run.
C7_SomeCallThrew ==
  /\ last.n > 0
  /\ \E i \in 1..Len(last.calls) :
       /\ last.calls[i].fn \in {"mkdirSync", "writeFileSync", "copySync"}
       /\ last.calls[i].threw /= NoErr

(***************************************************************************)
(* C8                                                                      *)
(***************************************************************************)
\* What each command's action prints first.
Banner(cmd) ==
  CASE cmd = "express" -> "Creating Express project: "
    [] cmd = "react" -> "Creating React project: "
    [] cmd = "react-component" -> "Creating React component: "
    [] cmd = "express-model" -> "Creating MongoDB model: "
    [] cmd = "express-controller" -> "Creating MongoDB controller: "
    [] cmd = "express-route" -> "Creating route for: "
    [] cmd = "express-middleware" -> "Creating middleware file: "

\* C8: given one of the seven keywords and one argument, the dispatcher
\* invokes exactly one action, the keyword's own, with that argument; given
\* an unknown keyword it invokes no action, no filesystem call is made and
\* the filesystem is unchanged.
C8_ExactlyOneAction ==
  last.n > 0
    => IF last.cmd \in FileGenerationCommands \cup ProjectGenerationCommands
       THEN Len(last.args) = 1
              => /\ Len(last.invoked) = 1
                 /\ Registered[last.invoked[1].action] = last.cmd
                 /\ last.invoked[1].arg = last.args[1]
                 /\ last.log[1].msg = <<Banner(last.cmd), Raw(last.args[1])>>
       ELSE /\ last.invoked = << >>
            /\ last.calls = << >>
            /\ Now = last.before

\* The route command has been dispatched.
C8_RouteDispatched ==
  last.n > 0 /\ last.cmd = "express-route" /\ Len(last.invoked) = 1

(***************************************************************************)
(* C9                                                                      *)
(***************************************************************************)
\* C9: no run of any command calls askUserConfirmation: in particular a run
\* that writes or copies over what exists does so without a prompt.
C9_NeverPrompts ==
  last.n > 0
    => \A i \in 1..Len(last.calls) : last.calls[i].fn /= "askUserConfirmation"

\* react-component has overwritten a file that existed.
C9_OverwroteUnasked ==
  /\ GeneratesFile(last)
  /\ Destination(last) \in DOMAIN last.before.files
  /\ files[Destination(last)] /= last.before.files[Destination(last)]

(***************************************************************************)
(* C10                                                                     *)
(***************************************************************************)
SameAt(run, p) ==
  /\ p \in dirs <=> p \in run.before.dirs
  /\ p \in DOMAIN files <=> p \in DOMAIN run.before.files
  /\ p \in DOMAIN files => files[p] = run.before.files[p]

\* The paths the run created or modified.
Touched(run) ==
  { p \in dirs \cup run.before.dirs \cup DOMAIN files \cup DOMAIN run.before.files :
      ~SameAt(run, p) }

\* Neither inside the command's target directory nor on the path to it.
Outside(cmd, p) == ~IsPrefix(TargetDir(cmd), p) /\ ~IsPrefix(p, TargetDir(cmd))

\* C10 (as claimed): a file-generation command, whatever the name, creates or
\* modifies nothing outside its target subdirectory.
C10_NothingOutsideTargetDir ==
  GeneratesFile(last) => \A p \in Touched(last) : ~Outside(last.cmd, p)

\* C10 (amended): a file-generation command creates or modifies at most its
\* destination file, the normalised <cwd>/<targetSubdir>/<name>.<ext>, and the
\* directories on the path to its target subdirectory; when the name has no
\* ".." segment that file lies inside the target subdirectory, so nothing
\* outside it is created or modified.
C10_OnlyDestinationTouched ==
  GeneratesFile(last)
    => /\ Touched(last) \subseteq
            {Destination(last)} \cup Ancestors(TargetDir(last.cmd)) \cup {TargetDir(last.cmd)}
       /\ ".." \notin Range(last.args[1])
            => \A p \in Touched(last) : ~Outside(last.cmd, p)

\* A name with a separator and no "..": its file was created in a
\* subdirectory of the target directory, beside files of other commands.
C10_WroteInsideSubdir ==
  /\ GeneratesFile(last)
  /\ Len(last.args[1]) > 1
  /\ ".." \notin Range(last.args[1])
  /\ Destination(last) \in Touched(last)
  /\ \E p \in DOMAIN last.before.files : Outside(last.cmd, p)
====
